---- MODULE Spec2Model ----
(***************************************************************************)
(* Model of aw_superproductivity_watcher.py: the polling loop              *)
(* (watcher_loop), one diff pass (parse_backup_and_send) and the           *)
(* persistent cache (load_cache / save_cache).                             *)
(*                                                                         *)
(* Python dicts are functions; an absent key is a value outside DOMAIN.    *)
(* A dict that the code iterates over (timeTracking tables, task           *)
(* entities) is a sequence in file order, because iteration order is       *)
(* insertion order.  The nested loops of lines 120-123 run over the        *)
(* flattened sequence of (entity id, day, session) entries.                *)
(***************************************************************************)
EXTENDS Integers, Sequences, FiniteSets, TLC

VARIABLES
  pc,                         \* "Idle" (in time.sleep) or "Processing" (line 172 reached)
  backup,                     \* the resolved backup file on disk
  current_mtime,              \* local of watcher_loop, line 168
  last_mtime,                 \* line 23
  last_session_end_ms,        \* line 24
  last_update_timestamp,      \* line 25
  previous_time_spent_cache,  \* line 29
  cacheFile,                  \* contents of CACHE_FILE on disk
  pass                        \* what the latest diff pass over this backup file did

vars == <<pc, backup, current_mtime, last_mtime, last_session_end_ms,
          last_update_timestamp, previous_time_spent_cache, cacheFile, pass>>

---------------------------------------------------------------------------
(* Bounds of the model *)

MaxUpdate == 2      \* lastUpdate values of the snapshots: 0..MaxUpdate
MaxMtime == 2       \* modification times of the backup file: 1..MaxMtime
MaxSessions == 2    \* time-tracking entries per snapshot
MaxFailAt == 2      \* the insert_event call of a pass that may raise: 1..MaxFailAt

---------------------------------------------------------------------------
(* Python helpers *)

EmptyDict == [k \in {} |-> 0]

\* dict.get(k, default)
Get(d, k, default) == IF k \in DOMAIN d THEN d[k] ELSE default

\* truthiness of d.get(k): None (absent) and 0 are falsy
Truthy(d, k) == k \in DOMAIN d /\ d[k] # 0

\* d[k] = v on a dict
Put(d, k, v) == [x \in DOMAIN d \cup {k} |-> IF x = k THEN v ELSE d[x]]

Max(a, b) == IF a >= b THEN a ELSE b

---------------------------------------------------------------------------
(* The snapshots the external application writes *)

\* A task entity of mainModelData.task.entities; t1 has a title, t2 has none
T1(seconds) ==
  [id |-> "t1", projectId |-> "p1", title |-> "Write report",
   timeSpentOnDay |-> [d \in {"d1"} |-> seconds]]

T2(project_id, day) ==
  [id |-> "t2", projectId |-> project_id, timeSpentOnDay |-> [d \in {day} |-> 60]]

\* project.entities: p1 is titled, p2 is not listed
ProjectEntities == [p \in {"p1"} |-> [title |-> "Work"]]

\* One entry of mainModelData.timeTracking: dimension, entity id, day and
\* the session record {s, e}, of which a field may be absent or zero
Entry(src, i, r) == [source |-> src, id |-> i, day |-> "d1", session |-> r]

EntryKey(en) == <<en.source, en.id, en.day>>

\* The entries of one snapshot in file order: keys are unique (they are dict
\* keys) and the "project" table is walked before the "tag" table.
RECURSIVE EntryLists(_, _)
EntryLists(entries, n) ==
  IF n = 0 THEN { <<>> }
  ELSE LET shorter == EntryLists(entries, n - 1)
       IN shorter \cup
          { Append(l, en) : l \in { x \in shorter : Len(x) = n - 1 }, en \in entries }

WellFormed(l) ==
  /\ \A i, j \in 1..Len(l) : i < j => EntryKey(l[i]) # EntryKey(l[j])
  /\ \A i, j \in 1..Len(l) : i < j => ~(l[i].source = "tag" /\ l[j].source = "project")

TimeTrackingTables(entries) == { l \in EntryLists(entries, MaxSessions) : WellFormed(l) }

SnapshotsOf(taskTables, entries) ==
  { [lastUpdate |-> u, task |-> t, project |-> ProjectEntities, timeTracking |-> tt] :
      u \in 0..MaxUpdate, t \in taskTables, tt \in TimeTrackingTables(entries) }

\* The snapshots the application writes while the watcher runs
Snapshots ==
  SnapshotsOf({ <<T1(60), T2("p2", "d1")>>, <<T1(150), T2("p2", "d1")>> },
              { Entry("project", "p1", [s |-> 1000, e |-> 61000]),
                Entry("project", "p2", [s |-> 61000, e |-> 121000]) })

\* One line of the backup file: whether it starts with 'pf_', and what
\* follows its first '{' (nothing, text that is not JSON, or a document).
RecordLine(doc) == [startswith_pf |-> TRUE, json_part |-> [kind |-> "doc", doc |-> doc]]
BrokenLine == [startswith_pf |-> TRUE, json_part |-> [kind |-> "invalid"]]
OtherLine == [startswith_pf |-> FALSE, json_part |-> [kind |-> "none"]]

FileContents(snapshots) ==
  { <<OtherLine>>, <<BrokenLine>> } \cup { <<OtherLine, RecordLine(d)>> : d \in snapshots }

\* The resolved backup file: missing (resolve_backup_file_path or getmtime
\* raises FileNotFoundError), unreadable (open raises) or readable.
BackupFilesOf(snapshots) ==
  { [state |-> "missing", mtime |-> 0, lines |-> <<>>] } \cup
  { [state |-> "ok", mtime |-> m, lines |-> l] :
      m \in 1..MaxMtime, l \in FileContents(snapshots) } \cup
  { [state |-> "unreadable", mtime |-> m, lines |-> <<>>] : m \in 1..MaxMtime }

BackupFiles == BackupFilesOf(Snapshots)

---------------------------------------------------------------------------
(* The persistent cache: load_cache and save_cache *)

\* json.dump of the cache: the task keys and the (task, day, seconds) members
Dump(cache) ==
  [keys |-> DOMAIN cache,
   members |-> { <<t, d, cache[t][d]>> : <<t, d>> \in
                   UNION { { <<t2, d2>> : d2 \in DOMAIN cache[t2] } : t2 \in DOMAIN cache } }]

\* json.load of a dumped document
Load(doc) ==
  [t \in doc.keys |->
     [d \in { m[2] : m \in { x \in doc.members : x[1] = t } } |->
        (CHOOSE m \in doc.members : m[1] = t /\ m[2] = d)[3]]]

NoCacheFile == [kind |-> "absent"]
CorruptCacheFile == [kind |-> "corrupt"]
JsonCacheFile(cache) == [kind |-> "json", doc |-> Dump(cache)]

\* load_cache without its "global" statement: the module's cache stays empty
load_cache_NotAssigned(file) == EmptyDict

\* lines 31-41: the cache a starting process holds
load_cache(file) ==
  IF file.kind = "json" THEN Load(file.doc) ELSE EmptyDict

\* lines 43-48: the file after save_cache.  open(CACHE_FILE, "w") may fail
\* (file untouched) and the write may fail after the file was truncated.
save_cache(cache, file, outcome) ==
  CASE outcome = "ok" -> JsonCacheFile(cache)
    [] outcome = "open_fails" -> file
    [] outcome = "write_fails" -> CorruptCacheFile

SaveOutcomes == {"ok", "open_fails"}

---------------------------------------------------------------------------
(* One diff pass: parse_backup_and_send *)

\* x / 1000 as an exact value: whole thousands and the remainder
Div1000(x) == [whole |-> x \div 1000, rest |-> x % 1000]

\* lines 89-97 without the break of line 94: the last record line wins
RECURSIVE ScanLines_NoBreak(_, _)
ScanLines_NoBreak(lines, i) ==
  IF i > Len(lines) THEN [status |-> "not_found"]
  ELSE LET later == ScanLines_NoBreak(lines, i + 1)
       IN IF lines[i].startswith_pf /\ lines[i].json_part.kind # "none"
          THEN IF lines[i].json_part.kind = "invalid"
               THEN [status |-> "read_error"]
               ELSE IF later.status = "not_found"
                    THEN [status |-> "ok", json_data |-> lines[i].json_part.doc]
                    ELSE later
          ELSE later

\* lines 89-97: the scan for the record line
RECURSIVE ScanLines(_, _)
ScanLines(lines, i) ==
  IF i > Len(lines) THEN [status |-> "not_found"]
  ELSE IF lines[i].startswith_pf /\ lines[i].json_part.kind # "none"
       THEN IF lines[i].json_part.kind = "invalid"
            THEN [status |-> "read_error"]
            ELSE [status |-> "ok", json_data |-> lines[i].json_part.doc]
       ELSE ScanLines(lines, i + 1)

\* lines 87-100
ReadBackup(file) ==
  IF file.state # "ok" THEN [status |-> "read_error"] ELSE ScanLines(file.lines, 1)

\* the gate with >= for >: a snapshot already processed passes again
IsNewUpdate_OrEqual(last_update, timestamp) == last_update >= timestamp

\* the gate with != for >: an older snapshot passes too
IsNewUpdate_Differs(last_update, timestamp) == last_update # timestamp

\* line 103: the freshness gate lets the snapshot through
IsNewUpdate(last_update, timestamp) == ~(last_update <= timestamp)

\* line 111
project_names(projects) ==
  [p_id \in DOMAIN projects |-> Get(projects[p_id], "title", "Unnamed Project")]

\* line 126 without the comparison against the high-water mark
Qualifies_NoMark(session, mark) ==
  Truthy(session, "s") /\ Truthy(session, "e")

\* line 126
Qualifies(session, mark) ==
  Truthy(session, "s") /\ Truthy(session, "e") /\ session.e > mark

\* lines 130-133 without the test on the day
associated_tasks_AnyDay(tasks, project_id, day) ==
  SelectSeq(tasks, LAMBDA t : "projectId" \in DOMAIN t /\ t.projectId = project_id)

\* lines 130-133 keeping only the tasks that have a title
associated_tasks_TitledOnly(tasks, project_id, day) ==
  SelectSeq(tasks, LAMBDA t : /\ "projectId" \in DOMAIN t
                              /\ t.projectId = project_id
                              /\ day \in DOMAIN Get(t, "timeSpentOnDay", EmptyDict)
                              /\ "title" \in DOMAIN t)

\* lines 130-133
associated_tasks(tasks, project_id, day) ==
  SelectSeq(tasks, LAMBDA t : /\ "projectId" \in DOMAIN t
                              /\ t.projectId = project_id
                              /\ day \in DOMAIN Get(t, "timeSpentOnDay", EmptyDict))

\* line 138
TimeDiff(time_spent_today, prev_time_spent) == time_spent_today - prev_time_spent

\* lines 140-142 keeping the larger of the cached and the current seconds
UpdateCache_KeepMax(cache, task_id, day, time_spent_today) ==
  Put(cache, task_id,
      Put(Get(cache, task_id, EmptyDict), day,
          Max(time_spent_today, Get(Get(cache, task_id, EmptyDict), day, 0))))

\* lines 140-142
UpdateCache(cache, task_id, day, time_spent_today) ==
  Put(cache, task_id, Put(Get(cache, task_id, EmptyDict), day, time_spent_today))

\* lines 127-128, 144-150
Event(start_ms, end_ms, source_name, project_name, title) ==
  [timestamp |-> Div1000(start_ms),
   duration |-> Div1000(end_ms - start_ms),
   data |-> [source |-> source_name, project_or_tag_id |-> project_name, title |-> title]]

\* lines 155-156 with the comparison turned round
UpdateMark_Reversed(end_ms, mark) == IF end_ms < mark THEN end_ms ELSE mark

\* lines 155-156
UpdateMark(end_ms, mark) == IF end_ms > mark THEN end_ms ELSE mark

\* lines 134-153 with the event sent only when the reported delta is positive
RECURSIVE TaskLoop_SkipNoDelta(_, _, _, _, _, _)
TaskLoop_SkipNoDelta(st, associated, i, en, project_name, failAt) ==
  IF i > Len(associated) THEN st
  ELSE LET task == associated[i]
           task_id == IF "id" \in DOMAIN task THEN task.id ELSE "None"
           time_spent_today == Get(Get(task, "timeSpentOnDay", EmptyDict), en.day, 0)
           prev_time_spent == Get(Get(st.cache, task_id, EmptyDict), en.day, 0)
           time_diff == time_spent_today - prev_time_spent
           cache1 == Put(st.cache, task_id,
                         Put(Get(st.cache, task_id, EmptyDict), en.day, time_spent_today))
           title == Get(task, "title", "Unnamed Task")
           line == [source |-> en.source, id |-> en.id, day |-> en.day,
                    end_ms |-> en.session.e, task_id |-> task_id,
                    time_diff |-> time_diff,
                    event |-> Event(en.session.s, en.session.e, en.source,
                                    project_name, title)]
       IN IF time_diff <= 0
          THEN TaskLoop_SkipNoDelta([st EXCEPT !.cache = cache1],
                                    associated, i + 1, en, project_name, failAt)
          ELSE IF Len(st.sent) + 1 = failAt
          THEN [st EXCEPT !.cache = cache1, !.raised = TRUE]
          ELSE TaskLoop_SkipNoDelta([st EXCEPT !.cache = cache1, !.sent = Append(@, line)],
                                    associated, i + 1, en, project_name, failAt)

\* lines 134-153 for the tasks associated[i..]; st is the running state of
\* the pass, en the entry being walked, failAt the insert_event call that
\* raises (0: none)
RECURSIVE TaskLoop(_, _, _, _, _, _)
TaskLoop(st, associated, i, en, project_name, failAt) ==
  IF i > Len(associated) THEN st
  ELSE LET task == associated[i]
           task_id == IF "id" \in DOMAIN task THEN task.id ELSE "None"
           time_spent_today == Get(Get(task, "timeSpentOnDay", EmptyDict), en.day, 0)
           prev_time_spent == Get(Get(st.cache, task_id, EmptyDict), en.day, 0)
           time_diff == TimeDiff(time_spent_today, prev_time_spent)
           cache1 == UpdateCache(st.cache, task_id, en.day, time_spent_today)
           title == Get(task, "title", "Unnamed Task")
           event == Event(en.session.s, en.session.e, en.source, project_name, title)
           line == [source |-> en.source, id |-> en.id, day |-> en.day,
                    end_ms |-> en.session.e, task_id |-> task_id,
                    time_diff |-> time_diff, event |-> event]
       IN IF Len(st.sent) + 1 = failAt
          THEN [st EXCEPT !.cache = cache1, !.raised = TRUE]
          ELSE TaskLoop([st EXCEPT !.cache = cache1, !.sent = Append(@, line)],
                        associated, i + 1, en, project_name, failAt)

\* lines 120-156 for the entries[j..]
RECURSIVE SessionLoop(_, _, _, _, _, _)
SessionLoop(st, entries, j, tasks, names, failAt) ==
  IF j > Len(entries) \/ st.raised THEN st
  ELSE LET en == entries[j]
           project_name == Get(names, en.id, en.id)
       IN IF Qualifies(en.session, st.mark)
          THEN LET st1 == TaskLoop(st, associated_tasks(tasks, en.id, en.day), 1,
                                   en, project_name, failAt)
               IN IF st1.raised THEN st1
                  ELSE SessionLoop([st1 EXCEPT !.mark = UpdateMark(en.session.e, @)],
                                   entries, j + 1, tasks, names, failAt)
          ELSE SessionLoop(st, entries, j + 1, tasks, names, failAt)

\* lines 108-156: the walk over a snapshot that passed the freshness gate
Walk(json_data, mark, cache, failAt) ==
  SessionLoop([mark |-> mark, cache |-> cache, sent |-> <<>>, raised |-> FALSE],
              Get(json_data, "timeTracking", <<>>), 1,
              Get(json_data, "task", <<>>),
              project_names(Get(json_data, "project", EmptyDict)), failAt)

\* an early return that also reopens the freshness gate
Return_ResetGate(g, outcome) ==
  [outcome |-> outcome,
   last_update_timestamp |-> 0,
   last_session_end_ms |-> g.last_session_end_ms,
   cache |-> g.cache, cacheFile |-> g.cacheFile, sent |-> <<>>, saved |-> FALSE]

\* lines 95-100 and 104-105: print and return, nothing else
Return(g, outcome) ==
  [outcome |-> outcome,
   last_update_timestamp |-> g.last_update_timestamp,
   last_session_end_ms |-> g.last_session_end_ms,
   cache |-> g.cache, cacheFile |-> g.cacheFile, sent |-> <<>>, saved |-> FALSE]

\* lines 83-158.  g holds the globals on entry; the result holds them on
\* exit, with the outcome of the pass, the lines it printed for the events
\* it sent and whether save_cache wrote the file.
parse_backup_and_send(file, g, failAt, saveOutcome) ==
  LET read == ReadBackup(file)
  IN IF file.state = "missing" THEN Return(g, "resolve_error")
     ELSE IF read.status # "ok" THEN Return(g, read.status)
     ELSE LET last_update == Get(read.json_data, "lastUpdate", 0)
              w == Walk(read.json_data, g.last_session_end_ms, g.cache, failAt)
          IN IF ~IsNewUpdate(last_update, g.last_update_timestamp)
             THEN Return(g, "no_update")
             ELSE [outcome |-> IF w.raised THEN "insert_error" ELSE "done",
                   last_update_timestamp |-> last_update,
                   last_session_end_ms |-> w.mark,
                   cache |-> w.cache,
                   cacheFile |-> IF w.raised THEN g.cacheFile
                                 ELSE save_cache(w.cache, g.cacheFile, saveOutcome),
                   sent |-> w.sent,
                   saved |-> ~w.raised /\ saveOutcome = "ok"]

---------------------------------------------------------------------------
(* The process: module start-up, watcher_loop and its environment *)

\* pass.again: a pass had already run over this file
NoPass == [outcome |-> "none", mark |-> 0, sent |-> <<>>, saved |-> FALSE, again |-> FALSE]

\* lines 23-29 and 185-186: a process starts with the cache file as it is
Start(file) ==
  /\ pc' = "Idle"
  /\ current_mtime' = 0
  /\ last_mtime' = 0
  /\ last_session_end_ms' = 0
  /\ last_update_timestamp' = 0
  /\ previous_time_spent_cache' = load_cache(file)
  /\ pass' = NoPass

Init ==
  /\ pc = "Idle"
  /\ current_mtime = 0
  /\ last_mtime = 0
  /\ last_session_end_ms = 0
  /\ last_update_timestamp = 0
  /\ cacheFile \in {NoCacheFile, CorruptCacheFile}
  /\ previous_time_spent_cache = load_cache(cacheFile)
  /\ backup \in { b \in BackupFiles : b.state = "missing" }
  /\ pass = NoPass

\* The external application (or the user) replaces the backup file while
\* the watcher sleeps; each replacement moves the modification time on, and
\* the times wrap around within 1..MaxMtime.  The file may also be removed
\* at any moment.
WriteBackup ==
  /\ \E b \in BackupFiles :
       /\ b # backup
       /\ b.state = "missing" \/ (pc = "Idle" /\ b.mtime = (backup.mtime % MaxMtime) + 1)
       /\ backup' = b
  /\ pass' = NoPass
  /\ UNCHANGED <<pc, current_mtime, last_mtime, last_session_end_ms,
                 last_update_timestamp, previous_time_spent_cache, cacheFile>>

\* the loop with its first handler only
LoopCatches_FileNotFoundOnly(exc) == exc = "FileNotFoundError"

\* lines 177-180: the exceptions the loop absorbs
LoopCatches(exc) == exc \in {"FileNotFoundError", "Exception"}

\* line 170
BackupChanged(mtime, last) == last = 0 \/ mtime # last

\* lines 166-168 raise FileNotFoundError; lines 177-178 and 182
PollFails ==
  /\ pc = "Idle"
  /\ backup.state = "missing"
  /\ pc' = IF LoopCatches("FileNotFoundError") THEN "Idle" ELSE "Terminated"
  /\ UNCHANGED <<backup, current_mtime, last_mtime, last_session_end_ms,
                 last_update_timestamp, previous_time_spent_cache, cacheFile, pass>>

\* lines 166-170 and 174-175, 182: no new backup detected
PollNoChange ==
  /\ pc = "Idle"
  /\ backup.state # "missing"
  /\ ~BackupChanged(backup.mtime, last_mtime)
  /\ UNCHANGED <<pc, backup, current_mtime, last_mtime, last_session_end_ms,
                 last_update_timestamp, previous_time_spent_cache, cacheFile, pass>>

\* lines 166-171: a new backup is detected, the pass is about to run
PollDetects ==
  /\ pc = "Idle"
  /\ backup.state # "missing"
  /\ BackupChanged(backup.mtime, last_mtime)
  /\ current_mtime' = backup.mtime
  /\ pc' = "Processing"
  /\ UNCHANGED <<backup, last_mtime, last_session_end_ms,
                 last_update_timestamp, previous_time_spent_cache, cacheFile, pass>>

\* the exception a pass outcome stands for, "" when the pass returned
Raised(outcome) ==
  CASE outcome = "resolve_error" -> "FileNotFoundError"
    [] outcome = "insert_error" -> "Exception"
    [] OTHER -> ""

\* lines 172-173 and 177-182: the pass, then last_mtime unless it raised
Process ==
  /\ pc = "Processing"
  /\ \E failAt \in 0..MaxFailAt, saveOutcome \in SaveOutcomes :
       \E r \in { parse_backup_and_send(backup,
                    [last_update_timestamp |-> last_update_timestamp,
                     last_session_end_ms |-> last_session_end_ms,
                     cache |-> previous_time_spent_cache,
                     cacheFile |-> cacheFile], failAt, saveOutcome) } :
          /\ last_update_timestamp' = r.last_update_timestamp
          /\ last_session_end_ms' = r.last_session_end_ms
          /\ previous_time_spent_cache' = r.cache
          /\ cacheFile' = r.cacheFile
          /\ pass' = [outcome |-> r.outcome, mark |-> last_session_end_ms,
                       sent |-> r.sent, saved |-> r.saved,
                       again |-> pass.outcome # "none"]
          /\ last_mtime' = IF Raised(r.outcome) = "" THEN current_mtime ELSE last_mtime
          /\ pc' = IF Raised(r.outcome) = "" \/ LoopCatches(Raised(r.outcome))
                   THEN "Idle" ELSE "Terminated"
  /\ current_mtime' = 0
  /\ UNCHANGED backup

\* The process is stopped from outside while it sleeps, and started again.
Restart ==
  /\ pc = "Idle"
  /\ pass.outcome # "none"
  /\ Start(cacheFile)
  /\ UNCHANGED <<backup, cacheFile>>

Next == WriteBackup \/ PollFails \/ PollNoChange \/ PollDetects \/ Process \/ Restart

Spec == Init /\ [][Next]_vars

---------------------------------------------------------------------------
(* The process stopped and started again, with a record of what the       *)
(* stopped process had done over the file that is still in place.         *)

\* a start that would keep the high-water mark of the stopped process
StartAfter_KeepsMark(log) ==
  /\ pc' = "Idle"
  /\ current_mtime' = 0
  /\ last_mtime' = 0
  /\ last_update_timestamp' = 0
  /\ previous_time_spent_cache' = load_cache(cacheFile)
  /\ pass' = log
  /\ UNCHANGED <<backup, cacheFile, last_session_end_ms>>

\* lines 23-29 and 185-186: the new process has the initial globals and
\* the cache of the file; log tells what the stopped process did last.
StartAfter(log) ==
  /\ pc' = "Idle"
  /\ current_mtime' = 0
  /\ last_mtime' = 0
  /\ last_session_end_ms' = 0
  /\ last_update_timestamp' = 0
  /\ previous_time_spent_cache' = load_cache(cacheFile)
  /\ pass' = log
  /\ UNCHANGED <<backup, cacheFile>>

\* The process is stopped while it sleeps after a pass, and started again.
\* The log keeps the events of that pass and whether it saved the cache.
Stop ==
  /\ pc = "Idle"
  /\ pass.outcome \in {"insert_error", "done"}
  /\ StartAfter([outcome |-> "stopped", mark |-> pass.mark, sent |-> pass.sent,
                 saved |-> pass.saved, again |-> FALSE])

\* The process is terminated within parse_backup_and_send, after some of
\* the insertions of line 151 and before save_cache of line 158, and
\* started again.  The log keeps the events inserted so far and what the
\* pass would have done had it run on with a working sink and disk.
Kill ==
  /\ pc = "Processing"
  /\ \E u \in { parse_backup_and_send(backup,
                  [last_update_timestamp |-> last_update_timestamp,
                   last_session_end_ms |-> last_session_end_ms,
                   cache |-> previous_time_spent_cache,
                   cacheFile |-> cacheFile], 0, "ok") } :
       /\ u.outcome = "done"
       /\ \E n \in 0..Len(u.sent) :
            StartAfter([outcome |-> "killed", mark |-> last_session_end_ms,
                        sent |-> SubSeq(u.sent, 1, n), saved |-> FALSE, again |-> FALSE,
                        would_send |-> u.sent, would_save |-> u.cacheFile])

NextKill == WriteBackup \/ PollFails \/ PollNoChange \/ PollDetects \/ Process \/ Stop \/ Kill

SpecKill == Init /\ [][NextKill]_vars

---------------------------------------------------------------------------
(* A source application that never lowers a task's seconds as lastUpdate  *)
(* grows; its snapshots may reach the watcher in any order.               *)

\* the seconds of t1 on d1 in the snapshot the application wrote at u
SourceSeconds(u) == IF u >= MaxUpdate THEN 150 ELSE 60

MonotoneSnapshots ==
  { d \in Snapshots : d.task[1].timeSpentOnDay["d1"] = SourceSeconds(d.lastUpdate) }

MonotoneFiles == BackupFilesOf(MonotoneSnapshots)

\* as WriteBackup, with the files of this application
WriteMonotoneBackup ==
  /\ \E b \in MonotoneFiles :
       /\ b # backup
       /\ b.state = "missing" \/ (pc = "Idle" /\ b.mtime = (backup.mtime % MaxMtime) + 1)
       /\ backup' = b
  /\ pass' = NoPass
  /\ UNCHANGED <<pc, current_mtime, last_mtime, last_session_end_ms,
                 last_update_timestamp, previous_time_spent_cache, cacheFile>>

NextMonotone ==
  WriteMonotoneBackup \/ PollFails \/ PollNoChange \/ PollDetects \/ Process \/ Restart

SpecMonotone == Init /\ [][NextMonotone]_vars

---------------------------------------------------------------------------
(* One diff pass over every combination of snapshot, high-water mark and  *)
(* cache: the process is about to run parse_backup_and_send (line 172).   *)

PassSnapshots ==
  SnapshotsOf({ <<T1(sec)>> : sec \in {60, 100, 150} } \cup
              { <<T1(sec), T2(p, d)>> :
                  sec \in {60, 100, 150}, p \in {"p1", "p2"}, d \in {"d1", "d2"} },
              { Entry("project", "p1", [s |-> 1000, e |-> 61000]),
                Entry("project", "p1", [s |-> 61000, e |-> 121000]),
                Entry("project", "p2", [s |-> 61000, e |-> 121000]),
                Entry("project", "p2", [e |-> 121000]),
                Entry("project", "p2", [s |-> 0, e |-> 121000]),
                Entry("tag", "p1", [s |-> 1000, e |-> 61000]),
                Entry("tag", "p1", [s |-> 1000, e |-> 0]),
                Entry("tag", "p1", [s |-> 1000]) })

\* a cache with the given seconds for (t1, d1) and (t2, d1); 0: no entry
CacheOf(a, b) ==
  [t \in { x \in {"t1", "t2"} : (x = "t1" /\ a # 0) \/ (x = "t2" /\ b # 0) } |->
     [d \in {"d1"} |-> IF t = "t1" THEN a ELSE b]]

PassCaches == { CacheOf(a, b) : a \in {0, 60, 100, 150}, b \in {0, 60} }

\* a snapshot written without its lastUpdate field
WithoutLastUpdate(d) == [task |-> d.task, project |-> d.project, timeTracking |-> d.timeTracking]

PassFiles ==
  BackupFilesOf(PassSnapshots \cup
                { WithoutLastUpdate(d) : d \in { x \in PassSnapshots : x.lastUpdate = 0 } })

InitPass ==
  /\ pc = "Processing"
  /\ backup \in { b \in PassFiles : b.mtime = 1 }
  /\ current_mtime = backup.mtime
  /\ last_mtime = 0
  /\ last_update_timestamp \in 0..MaxUpdate
  /\ last_session_end_ms \in {0, 61000, 121000}
  /\ last_update_timestamp = 0 => last_session_end_ms = 0
  /\ previous_time_spent_cache \in PassCaches
  /\ cacheFile = JsonCacheFile(previous_time_spent_cache)
  /\ pass = NoPass

NextPass == Process

SpecPass == InitPass /\ [][NextPass]_vars

---------------------------------------------------------------------------
(* One pass of a new process over every file of a few lines: the reader   *)
(* of lines 87-100 meets lines with and without the prefix, with and      *)
(* without a '{', with and without valid JSON after it.                   *)

MaxLines == 3

\* a line that starts with 'pf_' and contains no '{'
BraceLessLine == [startswith_pf |-> TRUE, json_part |-> [kind |-> "none"]]

\* a line that does not start with 'pf_' and holds a JSON document
DecoyLine(doc) == [startswith_pf |-> FALSE, json_part |-> [kind |-> "doc", doc |-> doc]]

ReaderSnapshots ==
  { d \in Snapshots : /\ d.lastUpdate > 0
                      /\ d.task[1].timeSpentOnDay["d1"] = 60
                      /\ Len(d.timeTracking) = 1 }

ReaderLines ==
  { OtherLine, BraceLessLine, BrokenLine } \cup
  { RecordLine(d) : d \in ReaderSnapshots } \cup
  { DecoyLine(d) : d \in ReaderSnapshots }

RECURSIVE LineLists(_)
LineLists(n) ==
  IF n = 0 THEN { <<>> }
  ELSE LET shorter == LineLists(n - 1)
       IN shorter \cup
          { Append(l, x) : l \in { y \in shorter : Len(y) = n - 1 }, x \in ReaderLines }

InitReader ==
  /\ pc = "Processing"
  /\ backup \in { [state |-> "ok", mtime |-> 1, lines |-> l] : l \in LineLists(MaxLines) }
  /\ current_mtime = backup.mtime
  /\ last_mtime = 0
  /\ last_update_timestamp = 0
  /\ last_session_end_ms = 0
  /\ cacheFile = NoCacheFile
  /\ previous_time_spent_cache = load_cache(cacheFile)
  /\ pass = NoPass

NextReader == Process

SpecReader == InitReader /\ [][NextReader]_vars

---------------------------------------------------------------------------
(* Properties *)

\* the snapshot in the backup file, when the file holds one
HasDoc == ReadBackup(backup).status = "ok"
Doc == ReadBackup(backup).json_data
DocEntries == Get(Doc, "timeTracking", <<>>)
DocTasks == Get(Doc, "task", <<>>)

\* a step of Process: the pass of line 172 ran (and returned or raised)
PassStep == pc = "Processing" /\ pc' # "Processing"

\* entry j of the snapshot has non-zero start and end
ValidEntry(j) == Truthy(DocEntries[j].session, "s") /\ Truthy(DocEntries[j].session, "e")

\* the tasks associated with entry j, as indices into the task entities
TasksOf(j) ==
  { k \in 1..Len(DocTasks) :
       /\ DocTasks[k].projectId = DocEntries[j].id
       /\ DocEntries[j].day \in DOMAIN DocTasks[k].timeSpentOnDay }

\* line i of the pass reports entry j and task k
LineOf(line, j, k) ==
  /\ line.source = DocEntries[j].source
  /\ line.id = DocEntries[j].id
  /\ line.day = DocEntries[j].day
  /\ line.task_id = DocTasks[k].id

\* C1: no duplicate emission.  Every event a pass sends belongs to a
\* session whose end is greater than last_session_end_ms was when the pass
\* began: a session at or below the mark is never sent again.
C1_NoDuplicateEmission ==
  \A i \in 1..Len(pass.sent) : pass.sent[i].end_ms > pass.mark

\* A later pass got through the freshness gate over a snapshot holding a
\* session with tasks whose end is at or below the mark, and sent nothing
\* for it.
C1_Witness ==
  /\ pass.outcome = "done"
  /\ pass.mark > 0
  /\ HasDoc
  /\ \E j \in 1..Len(DocEntries) :
       /\ ValidEntry(j)
       /\ DocEntries[j].session.e <= pass.mark
       /\ TasksOf(j) # {}
       /\ \A i \in 1..Len(pass.sent) : \A k \in TasksOf(j) : ~LineOf(pass.sent[i], j, k)

\* C2: a pass that runs to completion sends an event for every task of
\* every session with non-zero start and end whose end is greater than
\* last_session_end_ms was when the pass began, in whatever order the
\* sessions are found.
C2_AllPastMarkEmitted ==
  (pass.outcome = "done" /\ HasDoc) =>
     \A j \in 1..Len(DocEntries) :
        (ValidEntry(j) /\ DocEntries[j].session.e > pass.mark) =>
           \A k \in TasksOf(j) : \E i \in 1..Len(pass.sent) : LineOf(pass.sent[i], j, k)

\* C3: the freshness gate.  A pass over a snapshot whose lastUpdate is at
\* or below last_update_timestamp sends nothing and changes nothing; any
\* other pass over a snapshot sets last_update_timestamp to its lastUpdate.
\* So a pass that follows another pass over the same file sends nothing.
C3_FreshnessGate ==
  [][(PassStep /\ HasDoc) =>
        /\ IF Get(Doc, "lastUpdate", 0) <= last_update_timestamp
           THEN /\ pass'.sent = <<>>
                /\ UNCHANGED <<last_update_timestamp, last_session_end_ms,
                               previous_time_spent_cache, cacheFile>>
           ELSE last_update_timestamp' = Get(Doc, "lastUpdate", 0)
        /\ pass.outcome # "none" => pass'.sent = <<>>]_vars

\* A second pass ran over an unchanged file whose snapshot holds a session
\* past the mark with tasks, and it sent nothing.
C3_Witness ==
  /\ pass.outcome = "no_update"
  /\ pass.again
  /\ HasDoc
  /\ Get(Doc, "lastUpdate", 0) = last_update_timestamp
  /\ \E j \in 1..Len(DocEntries) :
       ValidEntry(j) /\ DocEntries[j].session.e > last_session_end_ms /\ TasksOf(j) # {}

\* C4: last_update_timestamp and last_session_end_ms are zero when a
\* process starts and never decrease while it runs, whatever a pass does.
C4_HighWaterMonotonic ==
  /\ last_update_timestamp = 0 /\ last_session_end_ms = 0
  /\ [][IF Restart
        THEN last_update_timestamp' = 0 /\ last_session_end_ms' = 0
        ELSE /\ last_update_timestamp' >= last_update_timestamp
             /\ last_session_end_ms' >= last_session_end_ms]_vars

\* A pass returned early on a stale snapshot while both components of the
\* mark were above zero.
C4_Witness ==
  /\ pass.outcome = "no_update"
  /\ HasDoc
  /\ Get(Doc, "lastUpdate", 0) < last_update_timestamp
  /\ last_session_end_ms > 0

\* the seconds the snapshot reports for the task and the day of a line
CumOf(line) ==
  LET k == CHOOSE x \in 1..Len(DocTasks) : DocTasks[x].id = line.task_id
  IN DocTasks[k].timeSpentOnDay[line.day]

\* C5: delta correctness.  Every line a pass reports for a task and a day
\* carries the snapshot's seconds for them minus the cached seconds (0 when
\* there was no entry; the snapshot's seconds once the pass has itself
\* cached them), and after the pass the cache holds the snapshot's seconds,
\* whatever the sign of the difference.
C5_DeltaCorrectness ==
  [][PassStep =>
       \A i \in 1..Len(pass'.sent) :
          LET line == pass'.sent[i]
              cum == CumOf(line)
              earlier == \E h \in 1..(i - 1) :
                            /\ pass'.sent[h].task_id = line.task_id
                            /\ pass'.sent[h].day = line.day
              cached == IF earlier THEN cum
                        ELSE Get(Get(previous_time_spent_cache, line.task_id, EmptyDict),
                                 line.day, 0)
          IN /\ line.time_diff = cum - cached
             /\ previous_time_spent_cache'[line.task_id][line.day] = cum]_vars

\* The cache held 100 for (t1, d1), the snapshot reports 150: the line
\* carries 50 and the cache holds 150.
C5_Witness ==
  /\ pass.outcome = "done"
  /\ HasDoc
  /\ \E i \in 1..Len(pass.sent) :
       /\ pass.sent[i].task_id = "t1" /\ pass.sent[i].day = "d1"
       /\ pass.sent[i].time_diff = 50
       /\ CumOf(pass.sent[i]) = 150
  /\ previous_time_spent_cache["t1"]["d1"] = 150

\* the value of last_session_end_ms when the walk reaches entry j: the mark
\* at the start of the pass, raised by the sessions with non-zero start and
\* end that precede j
MarkAt(j, mark0) ==
  LET ends == {mark0} \cup { DocEntries[h].session.e : h \in { x \in 1..(j - 1) : ValidEntry(x) } }
  IN CHOOSE m \in ends : \A x \in ends : m >= x

\* the (session, task) pairs of the snapshot that qualify
Pairs(mark0) ==
  { <<j, k>> \in (1..Len(DocEntries)) \X (1..Len(DocTasks)) :
       /\ ValidEntry(j)
       /\ DocEntries[j].session.e > MarkAt(j, mark0)
       /\ k \in TasksOf(j) }

DisplayName(id) ==
  IF id \in DOMAIN Doc.project /\ "title" \in DOMAIN Doc.project[id]
  THEN Doc.project[id].title
  ELSE IF id \in DOMAIN Doc.project THEN "Unnamed Project" ELSE id

\* the event of a line is the event of session j and task k
EventOf(event, j, k) ==
  /\ event.timestamp.whole * 1000 + event.timestamp.rest = DocEntries[j].session.s
  /\ event.duration.whole * 1000 + event.duration.rest
       = DocEntries[j].session.e - DocEntries[j].session.s
  /\ event.timestamp.rest \in 0..999 /\ event.duration.rest \in 0..999
  /\ event.data.source = DocEntries[j].source
  /\ event.data.project_or_tag_id = DisplayName(DocEntries[j].id)
  /\ event.data.title = IF "title" \in DOMAIN DocTasks[k] THEN DocTasks[k].title
                        ELSE "Unnamed Task"

C7_CachePersists ==
  [][/\ (PassStep /\ pass'.outcome = "done" /\ pass'.saved) =>
          /\ cacheFile'.kind = "json"
          /\ Load(cacheFile'.doc) = previous_time_spent_cache'
     /\ (Restart /\ pass.outcome = "done" /\ pass.saved) =>
          previous_time_spent_cache' = previous_time_spent_cache]_vars

\* A process has just started and holds the non-empty cache a pass saved.
C7_Witness ==
  /\ pass = NoPass /\ pc = "Idle"
  /\ last_mtime = 0 /\ last_update_timestamp = 0
  /\ cacheFile.kind = "json"
  /\ previous_time_spent_cache # EmptyDict
  /\ Dump(previous_time_spent_cache) = cacheFile.doc

\* C8: after a pass that failed to read the file the loop runs a pass again
\* at its next iteration, also when the file's modification time is as it
\* was.
C8_ReadErrorRetried ==
  (pc = "Idle" /\ pass.outcome \in {"read_error", "not_found"} /\ backup.state # "missing") =>
     BackupChanged(backup.mtime, last_mtime)

\* C9: a pass that fails to read or parse the file, or finds no record
\* line, sends nothing and leaves last_update_timestamp,
\* last_session_end_ms, the cache and the cache file as they were.
C9_ReadFailureNoMutation ==
  [][(PassStep /\ ~HasDoc) =>
        /\ pass'.sent = <<>>
        /\ UNCHANGED <<last_update_timestamp, last_session_end_ms,
                       previous_time_spent_cache, cacheFile>>]_vars

\* A pass failed to read the file while the mark was above zero and the
\* cache held entries.
C9_Witness ==
  /\ pass.outcome \in {"read_error", "not_found"}
  /\ last_update_timestamp > 0 /\ last_session_end_ms > 0
  /\ previous_time_spent_cache # EmptyDict

\* C10: no failure ends the loop.  The process is always either asleep or
\* in a pass; whatever the pass did, it leaves the loop asleep, from where
\* the loop can always poll again.
C10_LoopAbsorbsFailures ==
  /\ [](pc \in {"Idle", "Processing"})
  /\ [](pc = "Idle" => ENABLED (PollFails \/ PollNoChange \/ PollDetects))
  /\ [][PassStep => pc' = "Idle"]_vars

\* The sink refused an event, the pass raised, and the loop is asleep again.
C10_Witness ==
  /\ pc = "Idle" /\ pass.outcome = "insert_error"
  /\ Len(pass.sent) > 0
  /\ BackupChanged(backup.mtime, last_mtime)

\* C11: missing names never suppress an event.  In a pass that runs to
\* completion every qualifying (session, task) pair has its event also when
\* the task has no title, and the event then carries "Unnamed Task"; also
\* when the session's entity id is not in project.entities, and the event
\* then carries the raw id as display name.
C11_MissingNamesStillEmit ==
  (pass.outcome = "done" /\ HasDoc) =>
     \A p \in Pairs(pass.mark) :
        \E i \in 1..Len(pass.sent) :
           /\ LineOf(pass.sent[i], p[1], p[2])
           /\ "title" \notin DOMAIN DocTasks[p[2]] =>
                 pass.sent[i].event.data.title = "Unnamed Task"
           /\ DocEntries[p[1]].id \notin DOMAIN Get(Doc, "project", EmptyDict) =>
                 pass.sent[i].event.data.project_or_tag_id = DocEntries[p[1]].id

\* A pass sent the event of a task without title for a session of p2,
\* which project.entities does not list.
C11_Witness ==
  /\ pass.outcome = "done"
  /\ HasDoc
  /\ \E p \in Pairs(pass.mark) :
       /\ "title" \notin DOMAIN DocTasks[p[2]]
       /\ DocEntries[p[1]].id \notin DOMAIN Get(Doc, "project", EmptyDict)
       /\ \E i \in 1..Len(pass.sent) :
            /\ LineOf(pass.sent[i], p[1], p[2])
            /\ pass.sent[i].event.data = [source |-> "project", project_or_tag_id |-> "p2",
                                          title |-> "Unnamed Task"]

\* C12: a pass that fails after the freshness gate is retried effectively.
\* When the pass before this one raised on an insertion and the file is
\* unchanged, the pass that runs next with a working sink emits every
\* qualifying (session, task) event the failed pass did not emit.
C12_FailedPassRetried ==
  [][(/\ PassStep
      /\ HasDoc
      /\ pass.outcome = "insert_error"
      /\ pass'.outcome # "insert_error")
     => \A p \in Pairs(pass.mark) :
           \/ \E i \in 1..Len(pass.sent) : LineOf(pass.sent[i], p[1], p[2])
           \/ \E i \in 1..Len(pass'.sent) : LineOf(pass'.sent[i], p[1], p[2])]_vars

\* C13: after a pass that got through the freshness gate and ran to
\* completion, last_session_end_ms is the maximum of its value before the
\* pass and the largest end among the sessions of the snapshot whose start
\* and end are both non-zero, sessions without associated task included.
C13_MarkIsMaxOfValidEnds ==
  (pass.outcome = "done" /\ HasDoc) =>
     /\ last_session_end_ms >= pass.mark
     /\ \A j \in 1..Len(DocEntries) :
          ValidEntry(j) => last_session_end_ms >= DocEntries[j].session.e
     /\ \/ last_session_end_ms = pass.mark
        \/ \E j \in 1..Len(DocEntries) :
             ValidEntry(j) /\ last_session_end_ms = DocEntries[j].session.e

\* A completed pass raised the mark to the end of a session that has no
\* associated task, and emitted nothing.
C13_Witness ==
  /\ pass.outcome = "done"
  /\ HasDoc
  /\ pass.sent = <<>>
  /\ last_session_end_ms > pass.mark
  /\ \E j \in 1..Len(DocEntries) :
       /\ ValidEntry(j)
       /\ TasksOf(j) = {}
       /\ DocEntries[j].session.e = last_session_end_ms

\* C14: termination within a pass is safe for the cache.  When a process
\* is terminated within a pass before save_cache and started again over
\* the unchanged file, the cache file written by the first completed pass
\* of the new process equals the cache file the terminated pass would have
\* written had it run on.
C14_KillKeepsPersistedCache ==
  [][(/\ PassStep
      /\ pass.outcome = "killed"
      /\ pass'.outcome = "done"
      /\ pass'.saved)
     => cacheFile' = pass.would_save]_vars

\* C15: with a source that never lowers a task's seconds as lastUpdate
\* grows, no step of a process run lowers or drops the cached value of a
\* (task, day) pair, in whatever order the snapshots are read; only the
\* start of a new process may change the cache otherwise.
C15_CacheNonDecreasing ==
  [][Restart \/
     \A t \in DOMAIN previous_time_spent_cache :
        /\ t \in DOMAIN previous_time_spent_cache'
        /\ \A d \in DOMAIN previous_time_spent_cache[t] :
              /\ d \in DOMAIN previous_time_spent_cache'[t]
              /\ previous_time_spent_cache'[t][d] >= previous_time_spent_cache[t][d]]_vars

\* the events of the lines a pass printed, in the order they were sent
SentEvents(sent) == [i \in 1..Len(sent) |-> sent[i].event]

\* C16: the delta is informational only.  Whatever the cache, the sequence
\* of events a pass emits is the one the pass emits from the same snapshot
\* and the same high-water mark with an empty cache, so two passes that
\* differ in the cache only emit the same events, also when a delta is
\* zero or negative.
C16_EventsIndependentOfCache ==
  [][(PassStep /\ HasDoc /\ pass'.outcome \in {"done", "insert_error"})
     => SentEvents(pass'.sent) =
          SentEvents(Walk(Doc, last_session_end_ms, EmptyDict,
                          IF pass'.outcome = "insert_error"
                          THEN Len(pass'.sent) + 1 ELSE 0).sent)]_vars

\* A completed pass sent one event with a negative delta and one with a
\* zero delta.
C16_Witness ==
  /\ pass.outcome = "done"
  /\ \E i, j \in 1..Len(pass.sent) :
       pass.sent[i].time_diff < 0 /\ pass.sent[j].time_diff = 0

\* the line of the same session and task, whatever the delta it reports
SameEvent(a, b) == [a EXCEPT !.time_diff = 0] = [b EXCEPT !.time_diff = 0]

\* C17: a restart re-emits.  When a pass emitted events and saved the cache,
\* the process was then stopped and started again, and the file is
\* unchanged, the first pass of the new process starts from a high-water
\* mark of 0 and, if it completes, emits each of those events again, with
\* a reported delta of 0.
C17_RestartReEmits ==
  [][(/\ PassStep
      /\ pass.outcome = "stopped"
      /\ pass.saved
      /\ pass'.outcome = "done")
     => /\ pass'.mark = 0
        /\ \A i \in 1..Len(pass.sent) :
             \E j \in 1..Len(pass'.sent) :
                /\ SameEvent(pass.sent[i], pass'.sent[j])
                /\ pass'.sent[j].time_diff = 0]_vars

\* The new process is in its first pass over the file of which the stopped
\* process had emitted a session and saved the cache: the pass emits that
\* session again, with delta 0.
C17_Witness ==
  /\ pc = "Processing"
  /\ pass.outcome = "stopped"
  /\ pass.saved
  /\ pass.sent # <<>>
  /\ last_session_end_ms = 0
  /\ HasDoc
  /\ LET again == Walk(Doc, last_session_end_ms, previous_time_spent_cache, 0).sent
     IN \E j \in 1..Len(again) :
           SameEvent(pass.sent[1], again[j]) /\ again[j].time_diff = 0

\* the smallest index of a set of line numbers, 0 when there is none
FirstOf(S) == IF S = {} THEN 0 ELSE CHOOSE i \in S : \A j \in S : i <= j

\* the lines of the file that begin with the marker
MarkerLines == { i \in 1..Len(backup.lines) : backup.lines[i].startswith_pf }

\* the lines of the file that begin with the marker and contain a '{'
RecordLines == { i \in MarkerLines : backup.lines[i].json_part.kind # "none" }

\* the pass read the document of line i and nothing else: it printed the
\* events of that document and took its lastUpdate
ReadFrom(i) ==
  /\ backup.lines[i].json_part.kind = "doc"
  /\ last_update_timestamp = backup.lines[i].json_part.doc.lastUpdate
  /\ pass.sent = Walk(backup.lines[i].json_part.doc, 0, EmptyDict,
                      IF pass.outcome = "insert_error" THEN Len(pass.sent) + 1 ELSE 0).sent

\* C18 as stated: the reader uses the first line that begins with the
\* marker, whatever comes after it, and reports not-found exactly when no
\* line begins with the marker.
C18_FirstMarkerLine ==
  (pass.outcome # "none" /\ backup.state = "ok") =>
     /\ pass.outcome = "not_found" <=> MarkerLines = {}
     /\ pass.outcome \in {"done", "insert_error"} => ReadFrom(FirstOf(MarkerLines))

\* C18 amended: the reader uses the first line that begins with the marker
\* and contains a '{'; it parses that line from its first '{', fails when
\* that text is not JSON whatever comes after, and reports not-found
\* exactly when no line both begins with the marker and contains a '{'.
C18_FirstRecordLine ==
  (pass.outcome # "none" /\ backup.state = "ok") =>
     /\ pass.outcome = "not_found" <=> RecordLines = {}
     /\ RecordLines # {} =>
          IF backup.lines[FirstOf(RecordLines)].json_part.kind = "invalid"
          THEN pass.outcome = "read_error"
          ELSE pass.outcome \in {"done", "insert_error"} /\ ReadFrom(FirstOf(RecordLines))

\* The pass skipped a marker line without '{', read the record line after
\* it and ignored a different record line further down.
C18_Witness ==
  /\ pass.outcome = "done"
  /\ Len(backup.lines) = 3
  /\ backup.lines[1] = BraceLessLine
  /\ backup.lines[2].json_part.kind = "doc" /\ backup.lines[2].startswith_pf
  /\ backup.lines[3].json_part.kind = "doc" /\ backup.lines[3].startswith_pf
  /\ backup.lines[3] # backup.lines[2]
  /\ ReadFrom(2)
  /\ pass.sent # <<>>

\* C19: a snapshot whose lastUpdate is absent or zero is never processed.
\* Every pass over it, the first pass of a new process included, emits no
\* event and leaves the freshness gate, the high-water mark, the cache and
\* the cache file as they were, whatever sessions the snapshot holds.
C19_ZeroLastUpdateIgnored ==
  [][(PassStep /\ HasDoc /\ Get(Doc, "lastUpdate", 0) = 0)
     => /\ pass'.outcome = "no_update"
        /\ pass'.sent = <<>>
        /\ UNCHANGED <<last_update_timestamp, last_session_end_ms,
                       previous_time_spent_cache, cacheFile>>]_vars

\* A new process ran its first pass over a snapshot without lastUpdate
\* that holds a session with an associated task, and emitted nothing.
C19_Witness ==
  /\ pass.outcome = "no_update"
  /\ HasDoc
  /\ "lastUpdate" \notin DOMAIN Doc
  /\ last_update_timestamp = 0
  /\ last_session_end_ms = 0
  /\ pass.sent = <<>>
  /\ Pairs(0) # {}

====
